---- MODULE Spec2Model ----
(***************************************************************************)
(* A model of csv-vcf-converter.py: the CSV -> snapshot -> master VCF      *)
(* pipeline of ContactManager.process_new_csv, with the files it reads and *)
(* writes (master_contacts.vcf, the per-event snapshots, the history       *)
(* ledger, the declined lists) as the state.                               *)
(*                                                                         *)
(* A Python str is a sequence of one-character strings, so that split,     *)
(* strip, startswith and the substring test `in` are computed as Python    *)
(* computes them.  A Python dict is a sequence of <<key, value>> pairs in  *)
(* insertion order.  An Optional is a sequence of length 0 (None) or 1.    *)
(***************************************************************************)
EXTENDS Integers, Sequences, FiniteSets, TLC

VARIABLES
    csv,        \* input directory: file name -> rows of the CSV file (or unreadable)
    master,     \* Contact Snapshots/master_contacts.vcf: <<>> (no file) or <<text>>
    snaps,      \* Contact Snapshots/*_snapshot.vcf: dict snapshot name -> text
    history,    \* Contact Snapshots/contact_history.json: <<>> or <<ledger>>
    archive,    \* Archive Outputs/*_declined.txt: dict file name -> text
    merged,     \* ghost: the snapshots (name, text) merged into the master so far
    last,       \* ghost: the last run of main(): file, branch taken, return value, exit
                \* code, whether it merged a snapshot that was merged before, the
                \* master_contacts it handed to _save_master_vcf, whether it follows
                \* killed runs on the same file, and then the master and ledger the
                \* first of them would have left had it not been killed, and the
                \* steps of lines 684-689 the run has taken
    first_seen, \* ghost: email -> the name and email each Identity had when it entered the master
    mi          \* the inputs and results of a direct call of _merge_contact_data

vars == <<csv, master, snaps, history, archive, merged, last, first_seen, mi>>

-----------------------------------------------------------------------------
(* Python str *)

WS == {" ", "\n", "\t", "\r"}

DigitChars == <<"0","1","2","3","4","5","6","7","8","9">>

\* the characters of the model in code-point order
Alphabet ==
    <<"\t", "\n", "\r", " ", "(", ")", "+", ",", "-", ".", "/",
      "0","1","2","3","4","5","6","7","8","9", ":", ";", "?", "@",
      "A","B","C","D","E","F","G","H","I","J","K","L","M",
      "N","O","P","Q","R","S","T","U","V","W","X","Y","Z", "_",
      "a","b","c","d","e","f","g","h","i","j","k","l","m",
      "n","o","p","q","r","s","t","u","v","w","x","y","z">>

UpperChars == <<"A","B","C","D","E","F","G","H","I","J","K","L","M",
                "N","O","P","Q","R","S","T","U","V","W","X","Y","Z">>
LowerChars == <<"a","b","c","d","e","f","g","h","i","j","k","l","m",
                "n","o","p","q","r","s","t","u","v","w","x","y","z">>

Ord == [c \in {Alphabet[i] : i \in 1..Len(Alphabet)} |->
            CHOOSE i \in 1..Len(Alphabet) : Alphabet[i] = c]

LowerOf == [c \in {UpperChars[i] : i \in 1..26} |->
            LowerChars[CHOOSE i \in 1..26 : UpperChars[i] = c]]
UpperOf == [c \in {LowerChars[i] : i \in 1..26} |->
            UpperChars[CHOOSE i \in 1..26 : LowerChars[i] = c]]

\* the value of f at the one element of its domain: Let([x \in {e} |-> body]) is
\* body with x bound to the value of e, which is evaluated once
Let(f) == CHOOSE r \in {g[CHOOSE x \in DOMAIN g : TRUE] : g \in {f}} : TRUE

SetMin(S) == CHOOSE x \in S : \A y \in S : x <= y
SetMax(S) == CHOOSE x \in S : \A y \in S : y <= x

\* str.lower(), str.upper()
Lower(s) == [i \in 1..Len(s) |-> IF s[i] \in DOMAIN LowerOf THEN LowerOf[s[i]] ELSE s[i]]
Upper(s) == [i \in 1..Len(s) |-> IF s[i] \in DOMAIN UpperOf THEN UpperOf[s[i]] ELSE s[i]]

\* s[i:] starts with p
MatchAt(s, i, p) == i + Len(p) - 1 <= Len(s) /\ \A j \in 1..Len(p) : s[i + j - 1] = p[j]

\* str.startswith
StartsWith(s, p) == MatchAt(s, 1, p)

\* p in s
Contains(s, p) == \E i \in 1..(Len(s) - Len(p) + 1) : MatchAt(s, i, p)

\* str.find, 1-based; 0 when p does not occur
Find(s, p) ==
    IF Contains(s, p)
    THEN CHOOSE i \in 1..(Len(s) - Len(p) + 1) :
            MatchAt(s, i, p) /\ \A j \in 1..(i - 1) : ~MatchAt(s, j, p)
    ELSE 0

\* str.strip()
Strip(s) ==
    IF \A i \in 1..Len(s) : s[i] \in WS THEN <<>>
    ELSE SubSeq(s,
                CHOOSE i \in 1..Len(s) : s[i] \notin WS /\ \A j \in 1..(i - 1) : s[j] \in WS,
                CHOOSE i \in 1..Len(s) : s[i] \notin WS /\ \A j \in (i + 1)..Len(s) : s[j] \in WS)

\* the pieces of s from index start on, cut at the occurrences P of sep, left to right
RECURSIVE SplitFrom(_, _, _, _)
SplitFrom(s, n, P, start) ==
    LET Q == {p \in P : p >= start}
    IN  IF Q = {} THEN <<SubSeq(s, start, Len(s))>>
        ELSE LET p == SetMin(Q)
             IN  <<SubSeq(s, start, p - 1)>> \o SplitFrom(s, n, P, p + n)

\* str.split(sep), sep non-empty
Split(s, sep) ==
    SplitFrom(s, Len(sep), {i \in 1..(Len(s) - Len(sep) + 1) : MatchAt(s, i, sep)}, 1)

\* str.split(sep, 1)
Split1(s, sep) ==
    LET i == Find(s, sep)
    IN  IF i = 0 THEN <<s>>
        ELSE <<SubSeq(s, 1, i - 1), SubSeq(s, i + Len(sep), Len(s))>>

\* sep.join(parts)
RECURSIVE Join(_, _)
Join(parts, sep) ==
    IF parts = <<>> THEN <<>>
    ELSE IF Len(parts) = 1 THEN parts[1]
    ELSE parts[1] \o sep \o Join(Tail(parts), sep)

\* a < b on str (code-point order)
StrLess(a, b) ==
    LET n == IF Len(a) < Len(b) THEN Len(a) ELSE Len(b)
        D == {i \in 1..n : a[i] # b[i]}
    IN  IF D = {} THEN Len(a) < Len(b)
        ELSE Ord[a[SetMin(D)]] < Ord[b[SetMin(D)]]

\* sorted(S) for a set of str
RECURSIVE SortedStrs(_)
SortedStrs(S) ==
    IF S = {} THEN <<>>
    ELSE LET m == CHOOSE x \in S : \A y \in S : x = y \/ StrLess(x, y)
         IN  <<m>> \o SortedStrs(S \ {m})

\* a before b under the sort key of line 307 ("priority") or of line 540 ("email")
KeyLess(key, a, b) ==
    IF key = "priority" THEN a.priority < b.priority ELSE StrLess(a.email, b.email)

\* insert x into a sequence sorted by key, after the elements not greater than
\* it (a stable sort)
RECURSIVE InsertBy(_, _, _)
InsertBy(key, x, s) ==
    IF s = <<>> THEN <<x>>
    ELSE IF KeyLess(key, x, s[1]) THEN <<x>> \o s
    ELSE <<s[1]>> \o InsertBy(key, x, Tail(s))

\* sorted(seq, key=lambda x: x[key]), stable
RECURSIVE SortBy(_, _)
SortBy(key, s) ==
    IF s = <<>> THEN <<>>
    ELSE InsertBy(key, s[Len(s)], SortBy(key, SubSeq(s, 1, Len(s) - 1)))

Range(s) == {s[i] : i \in 1..Len(s)}

-----------------------------------------------------------------------------
(* Python dict: <<key, value>> pairs in insertion order, keys unique *)

DictKeys(d) == {d[i][1] : i \in 1..Len(d)}
DictHas(d, k) == \E i \in 1..Len(d) : d[i][1] = k
DictGet(d, k, default) ==
    IF DictHas(d, k) THEN d[CHOOSE i \in 1..Len(d) : d[i][1] = k][2] ELSE default
\* d[k] = v
DictPut(d, k, v) ==
    IF DictHas(d, k) THEN [i \in 1..Len(d) |-> IF d[i][1] = k THEN <<k, v>> ELSE d[i]]
    ELSE Append(d, <<k, v>>)
DictValues(d) == [i \in 1..Len(d) |-> d[i][2]]

\* Optional
None == <<>>
Some(x) == <<x>>

-----------------------------------------------------------------------------
(* Configuration (question_config.yaml), read through self.config.  The   *)
(* file is not part of the sources; the values below follow the places     *)
(* where the code reads them and the examples of its docstrings            *)
(* ("WY-2025-01-19", "01-31-2025YS_declined.txt", event types WY/YS).      *)

\* config['events']['questions']
Questions ==
    << << <<"r","s","v","p","_","r","o","l","e">>, [category |-> <<"p","r","o","f","e","s","s","i","o","n","a","l">>, note_prefix |-> <<"R","O","L","E">>,
                         patterns |-> << <<"r","o","l","e">> >>, transform |-> <<>>] >>,
       << <<"c","o","m","p","a","n","y">>,   [category |-> <<"p","r","o","f","e","s","s","i","o","n","a","l">>, note_prefix |-> <<"C","O">>,
                         patterns |-> << <<"c","o","m","p","a","n","y">>, <<"w","o","r","k">> >>, transform |-> <<>>] >>,
       << <<"h","e","l","p">>,      [category |-> <<"n","e","e","d","s">>, note_prefix |-> <<"H","E","L","P">>,
                         patterns |-> << <<"h","e","l","p">> >>,
                         transform |-> << << <<"y">>, <<"y","e","s">> >> >>] >> >>

\* config['events']['types']
EventTypes ==
    << << <<"W","Y">>, [name |-> <<"W","i","n","e"," ","Y","a","r","d">>, identifiers |-> << <<"w","i","n","e">> >>,
                  questions |-> << <<"r","s","v","p","_","r","o","l","e">>, <<"c","o","m","p","a","n","y">>, <<"h","e","l","p">> >>] >>,
       << <<"Y","S">>, [name |-> <<"Y","a","c","h","t"," ","S","o","c","i","a","l">>, identifiers |-> << <<"y","a","c","h","t">> >>,
                  questions |-> << <<"r","s","v","p","_","r","o","l","e">>, <<"h","e","l","p">> >>] >> >>

\* config['notes']['sections']
Sections ==
    << [name |-> <<"N","E","E","D","S">>, priority |-> 2],
       [name |-> <<"P","R","O","F","E","S","S","I","O","N","A","L">>, priority |-> 1] >>

\* config['ignore_fields']
IgnoreFields == { <<"c","r","e","a","t","e","d","_","a","t">> }

\* config['core']['vcf']['version']
VcfVersion == <<"3",".","0">>

\* config['notes']['format']['event_format'].format(code=, date=, name=):
\* "{code}-{date} ({name})"
EventFormat(code, date, name) == code \o <<"-">> \o date \o <<" ","(">> \o name \o <<")">>

\* config['core']['processing']['snapshot_format'].format(date=, event_code=):
\* "{date}_{event_code}_snapshot.vcf"
SnapshotFormat(date, event_code) == date \o <<"_">> \o event_code \o <<"_","s","n","a","p","s","h","o","t",".","v","c","f">>

-----------------------------------------------------------------------------
(* Dates: datetime.strptime and strftime *)

IsDigit(c) == c \in Range(DigitChars)
DigitVal(c) == (CHOOSE i \in 1..10 : DigitChars[i] = c) - 1
RECURSIVE ParseInt(_)
ParseInt(s) == IF s = <<>> THEN 0
               ELSE 10 * ParseInt(SubSeq(s, 1, Len(s) - 1)) + DigitVal(s[Len(s)])

Pad2(n) == <<DigitChars[((n \div 10) % 10) + 1], DigitChars[(n % 10) + 1]>>
\* '%Y' of strftime: the decimal digits of the year, not padded (glibc)
RECURSIVE StrfY(_)
StrfY(n) == IF n < 10 THEN <<DigitChars[n + 1]>>
            ELSE StrfY(n \div 10) \o <<DigitChars[(n % 10) + 1]>>

IsLeap(y) == (y % 4 = 0 /\ y % 100 # 0) \/ y % 400 = 0
DaysIn(y, m) == IF m = 2 THEN (IF IsLeap(y) THEN 29 ELSE 28)
                ELSE IF m \in {4, 6, 9, 11} THEN 30 ELSE 31

\* the datetime of (y, m, d), or None where strptime raises ValueError
MakeDate(y, m, d) ==
    IF y >= 1 /\ m \in 1..12 /\ d >= 1 /\ d <= DaysIn(y, m)
    THEN Some([y |-> y, m |-> m, d |-> d]) ELSE None

\* date.strftime('%Y-%m-%d')
StrfYmd(date) == StrfY(date.y) \o <<"-">> \o Pad2(date.m) \o <<"-">> \o Pad2(date.d)
\* date.strftime('%m-%d-%Y')
StrfMdy(date) == Pad2(date.m) \o <<"-">> \o Pad2(date.d) \o <<"-">> \o StrfY(date.y)

MonthNames == << <<"J","a","n">>, <<"F","e","b">>, <<"M","a","r">>, <<"A","p","r">>, <<"M","a","y">>, <<"J","u","n">>,
                 <<"J","u","l">>, <<"A","u","g">>, <<"S","e","p">>, <<"O","c","t">>, <<"N","o","v">>, <<"D","e","c">> >>

AllDigits(s, i, n) == i + n - 1 <= Len(s) /\ \A j \in i..(i + n - 1) : IsDigit(s[j])

\* the index after the run of whitespace that starts at i (i itself when none)
SkipWs(s, i) ==
    LET J == {j \in i..(Len(s) + 1) : j = Len(s) + 1 \/ s[j] \notin WS}
    IN  SetMin(J)

\* a match of (?:Jan|...|Dec)\s+\d{2}\s+\d{4} at index i of s:
\* Some(<<month, day text, year text>>), or None
MonthDateAt(s, i) ==
    LET day  == SkipWs(s, i + 3)
        year == SkipWs(s, day + 2)
    IN  IF /\ \E m \in 1..12 : MatchAt(s, i, MonthNames[m])
           /\ day > i + 3 /\ AllDigits(s, day, 2)
           /\ year > day + 2 /\ AllDigits(s, year, 4)
        THEN Some(<<CHOOSE m \in 1..12 : MatchAt(s, i, MonthNames[m]),
                    SubSeq(s, day, day + 1),
                    SubSeq(s, year, year + 3)>>)
        ELSE None

\* re.search of (?:Jan|...|Dec)\s+\d{2}\s+\d{4}: the leftmost match, or None
SearchMonthDate(s) ==
    Let([I \in {{i \in 1..Len(s) : MonthDateAt(s, i) # None}} |->
        IF I = {} THEN None ELSE MonthDateAt(s, SetMin(I))])

\* re.search of \d{2}-\d{2}-\d{4}: <<month text, day text, year text>> of the
\* leftmost match, or None
SearchNumericDate(s) ==
    LET I == {i \in 1..Len(s) :
                /\ AllDigits(s, i, 2) /\ MatchAt(s, i + 2, <<"-">>)
                /\ AllDigits(s, i + 3, 2) /\ MatchAt(s, i + 5, <<"-">>)
                /\ AllDigits(s, i + 6, 4)}
    IN  IF I = {} THEN None
        ELSE LET i == SetMin(I)
             IN  Some(<<SubSeq(s, i, i + 1), SubSeq(s, i + 3, i + 4),
                        SubSeq(s, i + 6, i + 9)>>)

\* os.path.splitext(filename)[0] for a file name without directories
SplitextStem(filename) ==
    LET I == {i \in 2..Len(filename) : filename[i] = "."}
    IN  IF I = {} \/ \A j \in 1..(SetMax(I) - 1) : filename[j] = "." THEN filename
        ELSE SubSeq(filename, 1, SetMax(I) - 1)

\* ContactProcessor._extract_date
ExtractDate(filename) ==
    Let([stem \in {SplitextStem(filename)} |->
        Let([a \in {SearchMonthDate(stem)}, b \in {SearchNumericDate(stem)} |->
            Let([da \in {IF a = None THEN None
                         ELSE MakeDate(ParseInt(a[1][3]), a[1][1], ParseInt(a[1][2]))} |->
                IF da # None THEN da
                ELSE IF b = None THEN None
                ELSE MakeDate(ParseInt(b[1][3]), ParseInt(b[1][1]), ParseInt(b[1][2]))])])])

\* ContactProcessor.identify_event: Some(Event) or None
IdentifyEvent(filename) ==
    Let([date \in {ExtractDate(filename)} |->
        LET hits == {i \in 1..Len(EventTypes) :
                        \E k \in 1..Len(EventTypes[i][2].identifiers) :
                            Contains(Lower(filename), Lower(EventTypes[i][2].identifiers[k]))}
        IN  IF date = None \/ hits = {} THEN None
            ELSE LET t == EventTypes[SetMin(hits)]
                 IN  Some([name |-> t[2].name, code |-> t[1], date |-> date[1],
                           questions |-> t[2].questions])])

-----------------------------------------------------------------------------
(* Contact and the CSV rows *)

\* dataclass Contact
Contact(name, email, phone, linkedin, answers, approval_status, notes) ==
    [name |-> name, email |-> email, phone |-> phone, linkedin |-> linkedin,
     answers |-> answers, approval_status |-> approval_status, notes |-> notes]

\* Contact.first_name
FirstName(name) == IF name = <<>> THEN <<>> ELSE Split(name, <<" ">>)[1]

\* Contact.last_name
LastName(name) ==
    LET parts == Split1(name, <<" ">>)
    IN  IF Len(parts) > 1 THEN parts[2] ELSE <<>>

\* the byte-order mark U+FEFF, one character
BOM == "\\ufeff"

\* {k.replace(BOM, ''): v.strip() for k, v in row.items() if v}
RECURSIVE CleanRow(_)
CleanRow(row) ==
    IF row = <<>> THEN <<>>
    ELSE LET rest == CleanRow(SubSeq(row, 1, Len(row) - 1))
             kv   == row[Len(row)]
         IN  IF kv[2] = <<>> THEN rest
             ELSE DictPut(rest, SelectSeq(kv[1], LAMBDA c : c # BOM), Strip(kv[2]))

COL_NAME     == <<"n","a","m","e">>
COL_EMAIL    == <<"e","m","a","i","l">>
COL_PHONE    == <<"p","h","o","n","e","_","n","u","m","b","e","r">>
COL_STATUS   == <<"a","p","p","r","o","v","a","l","_","s","t","a","t","u","s">>
COL_LINKEDIN == <<"W","h","a","t"," ","i","s"," ","y","o","u","r"," ","L","i","n","k","e","d","I","n"," ","p","r","o","f","i","l","e","?">>
APPROVED     == <<"a","p","p","r","o","v","e","d">>
DECLINED     == <<"d","e","c","l","i","n","e","d">>
PENDING      == <<"p","e","n","d","i","n","g">>

\* the answers of an approved row
RowAnswers(cleaned_row, ignore_fields) ==
    SelectSeq(cleaned_row,
              LAMBDA kv : /\ kv[1] \notin ignore_fields
                          /\ kv[1] \notin {COL_NAME, COL_EMAIL, COL_PHONE, COL_STATUS}
                          /\ kv[2] # <<>>)

\* ContactProcessor._process_row
ProcessRow(row, ignore_fields) ==
    Let([cleaned_row \in {CleanRow(row)} |->
        Let([approval_status \in {Lower(DictGet(cleaned_row, COL_STATUS, PENDING))} |->
            IF approval_status # APPROVED
            THEN Contact(DictGet(cleaned_row, COL_NAME, <<>>),
                         DictGet(cleaned_row, COL_EMAIL, <<>>),
                         DictGet(cleaned_row, COL_PHONE, <<>>),
                         <<>>, <<>>, approval_status, <<>>)
            ELSE Contact(DictGet(cleaned_row, COL_NAME, <<>>),
                         DictGet(cleaned_row, COL_EMAIL, <<>>),
                         DictGet(cleaned_row, COL_PHONE, <<>>),
                         DictGet(cleaned_row, COL_LINKEDIN, <<>>),
                         RowAnswers(cleaned_row, ignore_fields), APPROVED, <<>>)])])

-----------------------------------------------------------------------------
(* Notes of one event *)

NoQuestion == [category |-> <<>>, note_prefix |-> <<>>, patterns |-> <<>>, transform |-> <<>>]

SkipField(field) ==
    \E skip \in { <<"l","i","n","k","e","d","i","n">>, <<"u","r","l">>, <<"p","r","o","f","i","l","e">> } : Contains(Lower(field), skip)

\* the set of note lines one answer adds (lines 416-429)
AnswerLines(question_id, question, value) ==
    IF question_id = <<"r","s","v","p","_","r","o","l","e">> THEN { <<"R","O","L","E",":"," ">> \o value }
    ELSE LET v == DictGet(question.transform, value, value)
         IN  IF Contains(v, <<",">>)
             THEN {question.note_prefix \o <<":"," ">> \o Strip(x) : x \in Range(Split(v, <<",">>))}
             ELSE {question.note_prefix \o <<":"," ">> \o v}

\* the fields of answers that the pattern matches (lines 407-411), in order
MatchingFields(answers, pattern) ==
    {f \in 1..Len(answers) :
        ~SkipField(answers[f][1]) /\ Contains(Lower(answers[f][1]), Lower(pattern))}

\* one turn of the loop over event_questions: Some(sections), or None where
\* sections[category] raises KeyError
AddQuestion(question_id, answers, sections) ==
    Let([question \in {DictGet(Questions, question_id, NoQuestion)} |->
        Let([category \in {IF question_id = <<"r","s","v","p","_","r","o","l","e">> THEN <<"P","R","O","F","E","S","S","I","O","N","A","L">>
                           ELSE Upper(question.category)},
             Field \in {[p \in 1..Len(question.patterns) |->
                            MatchingFields(answers, question.patterns[p])]} |->
            Let([P \in {{p \in 1..Len(question.patterns) : Field[p] # {}}} |->
                IF Contains(Lower(question_id), <<"l","i","n","k","e","d","i","n">>) \/ P = {} THEN Some(sections)
                ELSE IF ~DictHas(sections, category) THEN None
                ELSE Some(DictPut(sections, category,
                                  DictGet(sections, category, {})
                                      \cup AnswerLines(question_id, question,
                                                       answers[SetMin(Field[SetMin(P)])][2])))])])])

RECURSIVE SectionFold(_, _, _)
SectionFold(question_ids, answers, sections) ==
    IF question_ids = <<>> THEN Some(sections)
    ELSE Let([r \in {AddQuestion(question_ids[1], answers, sections)} |->
             IF r = None THEN None ELSE SectionFold(Tail(question_ids), answers, r[1])])

\* ContactProcessor._get_section_values: dict section name -> set of lines
GetSectionValues(contact, event) ==
    LET sections == [i \in 1..Len(Sections) |-> <<Sections[i].name, {}>>]
    IN  IF contact.answers = <<>> \/ event = None THEN sections
        ELSE Let([r \in {SectionFold(IF ~DictHas(EventTypes, event[1].code) THEN <<>>
                                     ELSE DictGet(EventTypes, event[1].code, <<>>).questions,
                                     contact.answers, sections)} |->
                 IF r = None THEN <<>> ELSE r[1]])

\* the loop over contact.notes.split('  ') of _format_notes: <<event_groups, current_event>>
RECURSIVE ParseGroups(_)
ParseGroups(pieces) ==
    IF pieces = <<>> THEN <<<<>>, None>>
    ELSE LET st   == ParseGroups(SubSeq(pieces, 1, Len(pieces) - 1))
             line == Strip(pieces[Len(pieces)])
         IN  IF StartsWith(line, <<"E","V","E","N","T",":">>) THEN <<DictPut(st[1], line, <<>>), Some(line)>>
             ELSE IF st[2] # None /\ st[2][1] # <<>> /\ line # <<>>
                  THEN <<DictPut(st[1], st[2][1], Append(DictGet(st[1], st[2][1], <<>>), line)), st[2]>>
                  ELSE st

\* the lines of the sections other than PROFESSIONAL, by priority (lines 307-310)
RECURSIVE OtherNotes(_, _)
OtherNotes(sections, ordered) ==
    IF ordered = <<>> THEN <<>>
    ELSE (IF ordered[1].name # <<"P","R","O","F","E","S","S","I","O","N","A","L">>
          THEN SortedStrs(DictGet(sections, ordered[1].name, {})) ELSE <<>>)
         \o OtherNotes(sections, Tail(ordered))

\* the lines of the new event (lines 297-310)
EventNotes(contact, event) ==
    Let([sections \in {GetSectionValues(contact, event)} |->
        SortedStrs({n \in DictGet(sections, <<"P","R","O","F","E","S","S","I","O","N","A","L">>, {}) : StartsWith(n, <<"R","O","L","E",":">>)})
        \o OtherNotes(sections, SortBy("priority", Sections))])

\* ContactProcessor._format_notes
FormatNotes(contact, event) ==
    Let([old \in {IF contact.notes = <<>> THEN <<>>
                  ELSE ParseGroups(Split(contact.notes, <<" "," ">>))[1]} |->
        Let([event_groups \in
                {IF event = None THEN old
                 ELSE DictPut(old,
                              <<"E","V","E","N","T",":"," ">> \o EventFormat(event[1].code, StrfYmd(event[1].date),
                                                         event[1].name),
                              EventNotes(contact, event))} |->
            Join([i \in 1..Len(event_groups) |->
                     Join(<<event_groups[i][1]>> \o event_groups[i][2], <<" "," ">>)],
                 <<" "," "," "," "," "," "," "," "," "," ">>)])])

\* ContactProcessor._format_vcf_entry
FormatVcfEntry(contact, event) ==
    Let([notes \in {FormatNotes(contact, Some(event))} |->
        Join(<< <<"B","E","G","I","N",":","V","C","A","R","D">>,
               <<"V","E","R","S","I","O","N",":">> \o VcfVersion,
               <<"N",":">> \o LastName(contact.name) \o <<";">> \o FirstName(contact.name) \o <<";",";",";">>,
               <<"E","M","A","I","L",":">> \o contact.email,
               <<"T","E","L",":">> \o contact.phone >>
             \o (IF contact.linkedin # <<>>
                 THEN << <<"U","R","L",";","T","Y","P","E","=","W","O","R","K",":">> \o contact.linkedin >> ELSE <<>>)
             \o (IF notes # <<>> THEN << <<"N","O","T","E",":">> \o notes >> ELSE <<>>)
             \o << <<"E","N","D",":","V","C","A","R","D","\n">> >>,
             <<"\n">>)])

\* ContactProcessor._save_contacts_to_vcf: the text written to output_path
RECURSIVE SaveContactsToVcf(_, _)
SaveContactsToVcf(contacts, event) ==
    IF contacts = <<>> THEN <<>>
    ELSE (IF contacts[1].approval_status = APPROVED
          THEN FormatVcfEntry(contacts[1], event) ELSE <<>>)
         \o SaveContactsToVcf(Tail(contacts), event)

-----------------------------------------------------------------------------
(* Merge, load and save *)

\* is_valid_linkedin_url
IsValidLinkedinUrl(url) ==
    /\ url # <<>>
    /\ StartsWith(Lower(url), <<"h","t","t","p">>)
    /\ (Contains(Lower(url), <<"l","i","n","k","e","d","i","n",".","c","o","m">>) \/ Contains(Lower(url), <<"l","i","n","k","e","d",".","i","n">>))

\* the event_info of new.notes: the text after "EVENT:" on the first line that
\* starts with it, stripped; "" when there is none (lines 464-468)
EventInfo(notes) ==
    LET lines == Split(notes, <<"\n">>)
        I == {i \in 1..Len(lines) : StartsWith(lines[i], <<"E","V","E","N","T",":">>)}
    IN  IF I = {} THEN <<>>
        ELSE Strip(Split1(lines[SetMin(I)], <<"E","V","E","N","T",":">>)[2])

\* the test of line 471
MergeKeep_NoCheck(old_notes, event_info, event_code) == event_info = <<>>
\* TRUE when the old notes are kept: no event info, or the event is already in them
MergeKeep(old_notes, event_info, event_code) ==
    ~(event_info # <<>> /\ ~Contains(old_notes, event_code))

\* the notes of an updated contact (lines 459-477)
MergedNotes(old_notes, new_notes, event_code) ==
    IF new_notes = <<>> THEN old_notes
    ELSE Let([event_info \in {EventInfo(new_notes)} |->
             IF MergeKeep(old_notes, event_info, event_code) THEN old_notes
             ELSE IF old_notes # <<>>
                  THEN old_notes \o <<"-","-","-","-","-","E","V","E","N","T",":"," ">> \o event_info
                  ELSE <<"E","V","E","N","T",":"," ">> \o event_info])

\* lines 452-460 with the name of the new contact
MergeExisting_KeepLatest(old, new, event_code) ==
    Contact(new.name, old.email, old.phone, old.linkedin, old.answers,
            old.approval_status, MergedNotes(old.notes, new.notes, event_code))
\* the branch `if old:` of _merge_contact_data
MergeExisting(old, new, event_code) ==
    Contact(old.name, old.email, old.phone, old.linkedin, old.answers,
            old.approval_status, MergedNotes(old.notes, new.notes, event_code))

\* ContactProcessor._merge_contact_data; old is an Optional
MergeContactData(old, new, event_code) ==
    IF old # None THEN MergeExisting(old[1], new, event_code)
    ELSE Contact(new.name, new.email, new.phone,
                 IF IsValidLinkedinUrl(new.linkedin) THEN new.linkedin ELSE <<>>,
                 new.answers, new.approval_status, new.notes)

\* open(...) in text mode reads "\r\n" and "\r" as one line end
UniversalNewlines(text) ==
    Let([t \in {Join(Split(text, <<"\r", "\n">>), <<"\n">>)} |->
        [i \in 1..Len(t) |-> IF t[i] = "\r" THEN "\n" ELSE t[i]]])

\* the key of a parsed card under which it is stored (line 513)
CardKey_ByName(current_contact, full_name) == full_name
CardKey(current_contact, full_name) == DictGet(current_contact, <<"e","m","a","i","l">>, <<>>)

\* contacts[key] = contact (line 513): a later card of the same key replaces
\* the earlier one
StoreCard(contacts, key, contact) == DictPut(contacts, key, contact)

\* the card that ends at END:VCARD (lines 504-521), stored into the state st of
\* the loop; current_contact is the dict of its fields
LoadCard(st, current_contact) ==
    IF ~DictHas(current_contact, <<"e","m","a","i","l">>) THEN [st EXCEPT !.current = None]
    ELSE Let([name_parts \in {Split(DictGet(current_contact, <<"n">>, <<";",";",";",";">>), <<";">>)} |->
             IF Len(name_parts) < 2 THEN [st EXCEPT !.failed = TRUE]
             ELSE Let([full_name \in {DictGet(current_contact, <<"f","n">>,
                                              Strip(name_parts[2] \o <<" ">> \o name_parts[1]))} |->
                      [st EXCEPT
                          !.contacts = StoreCard(st.contacts, CardKey(current_contact, full_name),
                              Contact(full_name,
                                      DictGet(current_contact, <<"e","m","a","i","l">>, <<>>),
                                      DictGet(current_contact, <<"t","e","l">>, <<>>),
                                      DictGet(current_contact, <<"u","r","l">>, <<>>),
                                      <<>>, APPROVED,
                                      DictGet(current_contact, <<"n","o","t","e">>, <<>>))),
                          !.current = None]])])

\* key, value = line.split(':', 1) (line 523)
KeyValue(line) == Split1(line, <<":">>)

\* one turn of the loop of _load_contacts_from_vcf (lines 499-527) on the
\* stripped line, from the state st
LoadLine(st, line) ==
    IF st.failed THEN st
    ELSE IF StartsWith(line, <<"B","E","G","I","N",":","V","C","A","R","D">>)
         THEN [st EXCEPT !.current = Some(<<>>)]
    ELSE IF StartsWith(line, <<"E","N","D",":","V","C","A","R","D">>) /\ st.current # None /\ st.current[1] # <<>>
         THEN LoadCard(st, st.current[1])
    ELSE IF st.current # None /\ Contains(line, <<":">>)
         THEN LET kv == KeyValue(line)
              IN  [st EXCEPT !.current =
                       Some(DictPut(st.current[1], Lower(Split(kv[1], <<";">>)[1]), kv[2]))]
    ELSE st

\* the loop of _load_contacts_from_vcf over the lines of the file:
\* [contacts, current_contact (an Optional dict), failed]
RECURSIVE LoadLines(_)
LoadLines(lines) ==
    IF lines = <<>> THEN [contacts |-> <<>>, current |-> None, failed |-> FALSE]
    ELSE LoadLine(LoadLines(SubSeq(lines, 1, Len(lines) - 1)), Strip(lines[Len(lines)]))

\* ContactProcessor._load_contacts_from_vcf of a file that exists: dict email -> Contact
LoadContactsFromVcf(text) ==
    Let([st \in {LoadLines(Split(UniversalNewlines(text), <<"\n">>))} |->
        IF st.failed THEN <<>> ELSE st.contacts])

\* the NOTE line of a card of the master (lines 551-552)
NoteLine_BlockPerLine(notes) ==
    IF notes # <<>> THEN <<"N","O","T","E",":">> \o Join(Split(notes, <<"-","-","-","-","-">>), <<"\n">>) \o <<"\n">> ELSE <<>>
NoteLine(notes) == IF notes # <<>> THEN <<"N","O","T","E",":">> \o notes \o <<"\n">> ELSE <<>>

\* the card _save_master_vcf writes for one contact (lines 542-553)
MasterCard(contact) ==
    <<"B","E","G","I","N",":","V","C","A","R","D","\n">> \o <<"V","E","R","S","I","O","N",":","3",".","0","\n">>
    \o <<"N",":">> \o LastName(contact.name) \o <<";">> \o FirstName(contact.name) \o <<";",";",";","\n">>
    \o <<"F","N",":">> \o contact.name \o <<"\n">>
    \o <<"E","M","A","I","L",":">> \o contact.email \o <<"\n">>
    \o (IF contact.phone # <<>> THEN <<"T","E","L",":">> \o contact.phone \o <<"\n">> ELSE <<>>)
    \o (IF contact.linkedin # <<>>
        THEN <<"U","R","L",";","T","Y","P","E","=","W","O","R","K",":">> \o contact.linkedin \o <<"\n">> ELSE <<>>)
    \o NoteLine(contact.notes)
    \o <<"E","N","D",":","V","C","A","R","D","\n","\n">>

RECURSIVE MasterCards(_)
MasterCards(contacts) ==
    IF contacts = <<>> THEN <<>>
    ELSE (IF contacts[1].approval_status = APPROVED THEN MasterCard(contacts[1]) ELSE <<>>)
         \o MasterCards(Tail(contacts))

\* ContactProcessor._save_master_vcf: the text written to master_contacts.vcf
SaveMasterVcf(contacts) == MasterCards(SortBy("email", DictValues(contacts)))

-----------------------------------------------------------------------------
(* ContactManager *)

\* the files under Contact Snapshots/ and Archive Outputs/; locked: open() of
\* master_contacts.vcf for writing raises (line 539)
FsOf(m, s, h, a) ==
    [master |-> m, snaps |-> s, history |-> h, archive |-> a, locked |-> FALSE]

\* the same files while the master file cannot be opened for writing
Locked(fs) == [fs EXCEPT !.locked = TRUE]

\* the files after _save_master_vcf(contacts): the exception open() raises is
\* caught and logged (lines 556-557), the master file stays as it was
WriteMaster(fs, contacts) ==
    IF fs.locked THEN fs ELSE [fs EXCEPT !.master = Some(SaveMasterVcf(contacts))]

\* the ledger _load_history returns when there is no history file.  The entries
\* 'contacts' (never written) and 'last_update' (the wall clock) are left out;
\* processed_snapshots is a set: the code rebuilds the list from a set (line 699)
\* and only tests membership.
NewHistory == [processed_files |-> <<>>, processed_snapshots |-> {}, current_file |-> None]

\* ContactManager._load_history
LoadHistory_Fresh(history_file) == NewHistory
LoadHistory(history_file) == IF history_file = None THEN NewHistory ELSE history_file[1]

\* the snapshot file name of _create_snapshot (lines 630-634)
SnapshotName(event) == SnapshotFormat(StrfYmd(event.date), event.code)

\* the declined file name of process_csv (line 218)
DeclinedName(event) == StrfMdy(event.date) \o event.code \o <<"_","d","e","c","l","i","n","e","d",".","t","x","t">>

\* one line of the declined file (lines 223-227)
DeclinedLine(contact) ==
    (IF contact.name # <<>> THEN contact.name ELSE <<"N","o"," ","N","a","m","e">>) \o <<","," ">>
    \o (IF contact.email # <<>> THEN contact.email ELSE <<"N","o"," ","E","m","a","i","l">>) \o <<","," ">>
    \o (IF contact.phone # <<>> THEN contact.phone ELSE <<"N","o"," ","P","h","o","n","e">>) \o <<","," ">>
    \o Upper(contact.approval_status) \o <<"\n">>

\* the test of line 205
IsArchived(contact) == contact.approval_status \in {DECLINED, PENDING}

RECURSIVE DeclinedText(_)
DeclinedText(contacts) ==
    IF contacts = <<>> THEN <<>>
    ELSE DeclinedLine(contacts[1]) \o DeclinedText(Tail(contacts))

\* ContactProcessor.process_csv on a file that may not open (file = None), with
\* event = identify_event(filename): contacts is None where the decorator
\* handle_errors returns None
ProcessCsv(filename, event, file) ==
    IF event = None \/ file = None THEN [contacts |-> None, declined |-> None]
    ELSE Let([all \in {[i \in 1..Len(file[1]) |-> ProcessRow(file[1][i], IgnoreFields)]} |->
             Let([declined_contacts \in {SelectSeq(all, IsArchived)} |->
                 [contacts |-> Some(SelectSeq(all, LAMBDA c : c.approval_status = APPROVED)),
                  declined |-> IF declined_contacts = <<>> THEN None
                               ELSE Some(<<DeclinedName(event[1]),
                                           DeclinedText(declined_contacts)>>)]])])

\* Path.stem of a snapshot path, split('_'): the event id of lines 676-678, or
\* None where the index raises
SnapshotEventId(snapshot_name) ==
    Let([parts \in {Split(SplitextStem(snapshot_name), <<"_">>)} |->
        IF Len(parts) < 2 THEN None ELSE Some(parts[2] \o <<"-">> \o parts[1])])

\* the loop of lines 682-689 over the contacts of one snapshot
RECURSIVE MergeSnapshot(_, _, _)
MergeSnapshot(master_contacts, snapshot_contacts, event_id) ==
    IF snapshot_contacts = <<>> THEN master_contacts
    ELSE LET email   == snapshot_contacts[1][1]
             contact == snapshot_contacts[1][2]
             next == IF contact.approval_status # APPROVED THEN master_contacts
                     ELSE IF DictHas(master_contacts, email)
                          THEN DictPut(master_contacts, email,
                                       MergeContactData(Some(DictGet(master_contacts, email, None)),
                                                        contact, event_id))
                          ELSE DictPut(master_contacts, email, contact)
         IN  MergeSnapshot(next, Tail(snapshot_contacts), event_id)

\* what the loop of lines 682-689 does with each approved contact of one
\* snapshot, in turn: old is the value of master_contacts[email] where the test
\* of line 684 holds (the call of line 685 follows), None where it fails (line
\* 689 follows)
RECURSIVE SnapshotSteps(_, _, _, _)
SnapshotSteps(snapshot_name, master_contacts, snapshot_contacts, event_id) ==
    IF snapshot_contacts = <<>> THEN <<>>
    ELSE LET email   == snapshot_contacts[1][1]
             contact == snapshot_contacts[1][2]
         IN  (IF contact.approval_status # APPROVED THEN <<>>
              ELSE <<[snapshot |-> snapshot_name, email |-> email,
                      old |-> IF DictHas(master_contacts, email)
                              THEN Some(DictGet(master_contacts, email, None))
                              ELSE None,
                      new |-> contact, event_code |-> event_id]>>)
             \o SnapshotSteps(snapshot_name,
                              MergeSnapshot(master_contacts, <<snapshot_contacts[1]>>, event_id),
                              Tail(snapshot_contacts), event_id)

\* the loop of lines 671-695 over the new snapshots, in sorted order:
\* [contacts, processed], and the steps of lines 684-689 it has taken
RECURSIVE MergeSnapshots(_, _, _, _, _)
MergeSnapshots(names, snapshot_files, master_contacts, processed, steps) ==
    IF names = <<>>
    THEN [contacts |-> master_contacts, processed |-> processed, steps |-> steps]
    ELSE Let([id \in {SnapshotEventId(names[1])} |->
             IF id = None
             THEN MergeSnapshots(Tail(names), snapshot_files, master_contacts, processed, steps)
             ELSE Let([snapshot_contacts \in
                          {LoadContactsFromVcf(DictGet(snapshot_files, names[1], <<>>))} |->
                      MergeSnapshots(Tail(names), snapshot_files,
                          MergeSnapshot(master_contacts, snapshot_contacts, id[1]),
                          processed \cup {names[1]},
                          steps \o SnapshotSteps(names[1], master_contacts,
                                                 snapshot_contacts, id[1]))])])

\* the snapshots _update_master_from_snapshots merges (lines 662-664, 671)
NewSnapshots(snapshot_files, hist) ==
    SortedStrs({n \in DictKeys(snapshot_files) : n \notin hist.processed_snapshots})

\* master_contacts as lines 656-659 load it
LoadMaster_Empty(fs) == <<>>
LoadMaster(fs) == IF fs.master = None THEN <<>> ELSE LoadContactsFromVcf(fs.master[1])

\* ContactManager._update_master_from_snapshots with self.history = hist:
\* the state of the files after each write, the ledger in memory, the snapshots
\* merged, the master_contacts handed to _save_master_vcf (None: not called)
\* and the steps of lines 684-689
UpdateMasterFromSnapshots(fs, hist) ==
    Let([new_snapshots \in {NewSnapshots(fs.snaps, hist)} |->
        IF new_snapshots = <<>>
        THEN [states |-> <<>>, hist |-> hist, merged |-> {}, saved |-> None,
              steps |-> <<>>]
        ELSE Let([r \in {MergeSnapshots(new_snapshots, fs.snaps,
                                        LoadMaster(fs),
                                        hist.processed_snapshots, <<>>)} |->
                 Let([h  \in {[hist EXCEPT !.processed_snapshots = r.processed]},
                      s1 \in {WriteMaster(fs, r.contacts)} |->
                     [states |-> <<s1, [s1 EXCEPT !.history = Some(h)]>>, hist |-> h,
                      merged |-> {<<n, DictGet(fs.snaps, n, <<>>)>> :
                                     n \in r.processed \ hist.processed_snapshots},
                      saved |-> Some(r.contacts), steps |-> r.steps]])])])

\* ContactManager._update_history (lines 721-724)
UpdateHistory(hist, filename, snapshot_path) ==
    [hist EXCEPT
        !.processed_files = IF filename \in Range(@) THEN @ ELSE Append(@, filename),
        !.processed_snapshots = @ \cup {snapshot_path}]

\* the test of lines 596-598
AlreadyProcessed_Never(hist, filename) == FALSE
AlreadyProcessed(hist, filename) == filename \in Range(hist.processed_files)

\* process_new_csv from line 601 on, with the ledger h1 and the files s1 that
\* line 600 has left, and an event identified
ProcessNewCsvFrom(filename, event, file, h1, s1) ==
    Let([pc \in {ProcessCsv(filename, Some(event), file)} |->
        Let([s2 \in {IF pc.declined = None THEN s1
                     ELSE [s1 EXCEPT !.archive = DictPut(@, pc.declined[1][1],
                                                         pc.declined[1][2])]} |->
            LET wa == IF pc.declined = None THEN <<>> ELSE <<s2>>
                snapshot_path == SnapshotName(event)
            IN  IF pc.contacts = None
                THEN [branch |-> "unreadable", ret |-> FALSE, states |-> <<s1>>, merged |-> {},
                      saved |-> None, master_at |-> 0, steps |-> <<>>]
                ELSE IF pc.contacts[1] = <<>>
                THEN [branch |-> "no_contacts", ret |-> FALSE, states |-> <<s1>> \o wa,
                      merged |-> {}, saved |-> None, master_at |-> 0, steps |-> <<>>]
                ELSE Let([s3 \in {[s2 EXCEPT !.snaps =
                                       DictPut(@, snapshot_path,
                                               SaveContactsToVcf(pc.contacts[1], event))]} |->
                     Let([um \in {UpdateMasterFromSnapshots(s3, h1)} |->
                         LET s5 == IF um.states = <<>> THEN s3 ELSE um.states[Len(um.states)]
                         IN  [branch |-> "ok", ret |-> TRUE,
                              states |-> <<s1>> \o wa \o <<s3>> \o um.states
                                         \o <<[s5 EXCEPT !.history =
                                                  Some(UpdateHistory(um.hist, filename,
                                                                     snapshot_path))]>>,
                              merged |-> um.merged, saved |-> um.saved,
                              master_at |-> IF um.states = <<>> THEN 0
                                            ELSE Len(<<s1>> \o wa) + 2,
                              steps |-> um.steps]])])])])

\* ContactManager.process_new_csv (with _create_snapshot) in a fresh process, on
\* the files fs and the input file (None: it cannot be opened), with event =
\* identify_event(filename): the branch
\* taken, the value returned, the state of the files after each write in
\* turn, the snapshots merged into the master, the master_contacts handed
\* to _save_master_vcf, and the steps of lines 684-689
ProcessNewCsvRun(filename, event, file, fs) ==
    Let([h0 \in {LoadHistory(fs.history)} |->
        IF AlreadyProcessed(h0, filename)
        THEN [branch |-> "already", ret |-> FALSE, states |-> <<>>, merged |-> {},
              saved |-> None, master_at |-> 0, steps |-> <<>>]
        ELSE Let([h1 \in {[h0 EXCEPT !.current_file = Some(filename)]} |->
                 Let([s1 \in {[fs EXCEPT !.history = Some(h1)]} |->
                     IF event = None
                     THEN [branch |-> "unidentified", ret |-> FALSE,
                           states |-> <<s1>>, merged |-> {}, saved |-> None,
                           master_at |-> 0, steps |-> <<>>]
                     ELSE ProcessNewCsvFrom(filename, event[1], file, h1, s1)])])])

\* the exit code of main(): the value process_new_csv returns is dropped (line
\* 986) and it raises nothing, so the run ends at line 993
MainExitCode(ret) == 0

-----------------------------------------------------------------------------
(* The input directory *)

\* a row of a Luma export, as csv.DictReader yields it
Row(name, email, phone, status, linkedin, answers) ==
    << <<COL_NAME, name>>, <<COL_EMAIL, email>>, <<COL_PHONE, phone>>,
       <<COL_STATUS, status>>, <<COL_LINKEDIN, linkedin>> >> \o answers

RowAl  == Row(<<"A","l"," ","B","o">>, <<"a","@","x">>, <<"+","1">>, <<"a","p","p","r","o","v","e","d">>, <<>>, << << <<"Y","o","u","r"," ","r","o","l","e">>, <<"d","e","v">> >> >>)
RowCy  == Row(<<"C","y"," ","D","i">>, <<"a","@","x">>, <<"+","2">>, <<"A","p","p","r","o","v","e","d">>, <<>>, << << <<"N","e","e","d"," ","h","e","l","p","?">>, <<"y">> >> >>)
RowAl0 == Row(<<"A","l"," ","B","o">>, <<"a","@","x">>, <<>>, <<"a","p","p","r","o","v","e","d">>, <<>>, <<>>)
RowBo  == Row(<<"B","o">>, <<"b","@","x">>, <<>>, <<"a","p","p","r","o","v","e","d">>, <<"h","t","t","p","s",":","/","/","l","i","n","k","e","d","i","n",".","c","o","m","/","b">>,
              << << <<"C","o","m","p","a","n","y">>, <<"C","o">> >> >>)
RowNoMailAl == Row(<<"A","l"," ","B","o">>, <<>>, <<"+","1">>, <<"a","p","p","r","o","v","e","d">>, <<>>, <<>>)
RowNoMailCy == Row(<<"C","y"," ","D","i">>, <<>>, <<"+","2">>, <<"a","p","p","r","o","v","e","d">>, <<>>, <<>>)
RowDeclined == Row(<<"E","d">>, <<"d","@","x">>, <<>>, <<"d","e","c","l","i","n","e","d">>, <<>>, <<>>)
RowNoStatus == Row(<<"E","d">>, <<"d","@","x">>, <<"+","3">>, <<>>, <<>>, <<>>)
RowWaitlist == Row(<<"F","l","o">>, <<"w","@","x">>, <<>>, <<"w","a","i","t","l","i","s","t">>, <<>>, <<>>)
\* a row whose values hold ';', ':' and a line break
RowOdd == Row(<<"D","i",";","E","m"," ","F","a">>, <<"o","@","x">>, <<"+","4",":","5">>, <<"a","p","p","r","o","v","e","d">>, <<"h","t","t","p","s",":","/","/","l","i","n","k","e","d","i","n",".","c","o","m","/","o">>,
              << << <<"Y","o","u","r"," ","r","o","l","e">>, <<"q","a","\n","l","e","a","d">> >> >>)
\* a row whose email has capital letters and blanks around it
RowCap == Row(<<"A","l"," ","B","o">>, <<" ","A","@","x"," ">>, <<"+","5">>, <<"a","p","p","r","o","v","e","d">>, <<>>, <<>>)
\* a row with an answer that names another event
RowRef == Row(<<"C","y"," ","D","i">>, <<"a","@","x">>, <<"+","2">>, <<"a","p","p","r","o","v","e","d">>, <<>>,
              << << <<"Y","o","u","r"," ","r","o","l","e">>, <<"W","Y","-","2","0","2","5","-","0","2","-","0","1"," ","h","o","s","t">> >> >>)
\* a row whose LinkedIn answer is not a LinkedIn URL
RowUrl == Row(<<"G","y">>, <<"g","@","x">>, <<>>, <<"a","p","p","r","o","v","e","d">>, <<"l","i","n","k","e","d","i","n",".","c","o","m","/","g">>, <<>>)

\* the input files: two exports of the Wine Yard of 2025-02-01, one of the Yacht
\* Social of 2025-01-19, and three files that cannot be processed
FileWine   == <<"w","i","n","e"," ","0","2","-","0","1","-","2","0","2","5",".","c","s","v">>
FileWine2  == <<"W","i","n","e"," ","Y","a","r","d"," ","F","e","b"," ","0","1"," ","2","0","2","5",".","c","s","v">>
FileYacht  == <<"y","a","c","h","t"," ","0","1","-","1","9","-","2","0","2","5",".","c","s","v">>
FileParty  == <<"p","a","r","t","y"," ","0","2","-","0","1","-","2","0","2","5",".","c","s","v">>
FileNoDate == <<"w","i","n","e"," ","1","3","-","0","1","-","2","0","2","5",".","c","s","v">>
FileGone   == <<"y","a","c","h","t"," ","0","3","-","0","1","-","2","0","2","5",".","c","s","v">>

Files == {FileWine, FileWine2, FileYacht, FileParty, FileNoDate, FileGone}

\* the most rows a file of the model has
MaxRows == 2

\* the contents each file may have (None: the file cannot be opened)
Contents(f) ==
    IF f = FileWine
    THEN {Some(r) : r \in {c \in {<<RowAl>>, <<RowAl0, RowDeclined>>, <<RowNoMailAl>>,
                                   <<RowCy, RowAl>>, <<RowWaitlist, RowNoStatus>>,
                                   <<RowBo, RowDeclined, RowAl>>} : Len(c) <= MaxRows}}
    ELSE IF f = FileYacht
    THEN {Some(r) : r \in {c \in {<<RowCy>>, <<RowNoMailCy>>, <<RowBo, RowCy>>, <<RowCap>>, <<RowRef>>,
                                   <<RowNoStatus, RowAl0, RowCy>>} : Len(c) <= MaxRows}}
    ELSE IF f = FileWine2 THEN {Some(<<RowBo>>), Some(<<RowOdd, RowUrl>>)}
    ELSE IF f = FileGone THEN {None}
    ELSE {Some(<<RowAl>>)}

-----------------------------------------------------------------------------
(* Runs of main() *)

\* identify_event is a function of the file name alone: its values on the
\* input directory, computed once
EventOfFile == [f \in Files |-> IdentifyEvent(f)]

NoRun == [file |-> <<>>, branch |-> "none", ret |-> FALSE, exit |-> 0, remerged |-> FALSE,
          saved |-> None, after_kill |-> FALSE, expect |-> None, steps |-> <<>>]
NoCall == [stage |-> 0]

Init ==
    /\ csv \in {[f \in Files |-> IF f = FileWine THEN a
                                   ELSE IF f = FileYacht THEN b
                                   ELSE IF f = FileWine2 THEN c
                                   ELSE CHOOSE x \in Contents(f) : TRUE] :
                    a \in Contents(FileWine), b \in Contents(FileYacht),
                    c \in Contents(FileWine2)}
    /\ master = None
    /\ snaps = <<>>
    /\ history = None
    /\ archive = <<>>
    /\ merged = {}
    /\ last = NoRun
    /\ first_seen = <<>>
    /\ mi = NoCall

Fs == FsOf(master, snaps, history, archive)

\* the master Directory, as _update_master_from_snapshots reads it (lines 656-659)
DirectoryOf(master_file) ==
    IF master_file = None THEN <<>> ELSE LoadContactsFromVcf(master_file[1])

Directory == DirectoryOf(master)

\* first_seen after a run that left the master file m: the Identities that were
\* not in the master before are recorded with their name and email
RECURSIVE Seen(_, _)
Seen(seen, directory) ==
    IF directory = <<>> THEN seen
    ELSE Seen(IF DictHas(seen, directory[1][1]) THEN seen
              ELSE Append(seen, <<directory[1][1], [name |-> directory[1][2].name,
                                                    email |-> directory[1][2].email]>>),
              Tail(directory))

\* python csv-vcf-converter.py filename, run to its end
Main(filename) ==
    \E run \in {ProcessNewCsvRun(filename, EventOfFile[filename], csv[filename], Fs)} :
    LET end == IF run.states = <<>> THEN Fs ELSE run.states[Len(run.states)]
    IN  /\ master' = end.master
        /\ snaps' = end.snaps
        /\ history' = end.history
        /\ archive' = end.archive
        /\ merged' = merged \cup run.merged
        /\ last' = [file |-> filename, branch |-> run.branch, ret |-> run.ret,
                    exit |-> MainExitCode(run.ret), remerged |-> run.merged \cap merged # {},
                    saved |-> run.saved,
                    after_kill |-> last.branch = "killed" /\ last.file = filename,
                    expect |-> IF last.branch = "killed" /\ last.file = filename
                               THEN last.expect ELSE None,
                    steps |-> run.steps]
        /\ first_seen' = IF end.master = master THEN first_seen
                         ELSE Seen(first_seen, DirectoryOf(end.master))
        /\ UNCHANGED <<csv, mi>>

\* python csv-vcf-converter.py filename, run to its end while the master file
\* cannot be opened for writing
MainLocked(filename) ==
    \E run \in {ProcessNewCsvRun(filename, EventOfFile[filename], csv[filename], Locked(Fs))} :
    LET end == IF run.states = <<>> THEN Fs ELSE run.states[Len(run.states)]
    IN  /\ master' = end.master
        /\ snaps' = end.snaps
        /\ history' = end.history
        /\ archive' = end.archive
        /\ merged' = merged
        /\ last' = [file |-> filename,
                    branch |-> IF run.saved # None THEN "locked" ELSE run.branch,
                    ret |-> run.ret, exit |-> MainExitCode(run.ret), remerged |-> FALSE,
                    saved |-> None, after_kill |-> FALSE, expect |-> None,
                    steps |-> run.steps]
        /\ UNCHANGED <<csv, first_seen, mi>>

\* python csv-vcf-converter.py filename, killed after its k-th write to disk
MainKilled(filename) ==
    \E run \in {ProcessNewCsvRun(filename, EventOfFile[filename], csv[filename], Fs)} :
        \E k \in 1..(Len(run.states) - 1) :
        LET end   == run.states[k]
            saved == run.master_at # 0 /\ k >= run.master_at
        IN
        /\ master' = end.master
        /\ snaps' = end.snaps
        /\ history' = end.history
        /\ archive' = end.archive
        /\ merged' = IF saved THEN merged \cup run.merged ELSE merged
        /\ last' = [file |-> filename, branch |-> "killed", ret |-> FALSE, exit |-> 137,
                    remerged |-> saved /\ run.merged \cap merged # {},
                    saved |-> IF saved THEN run.saved ELSE None,
                    after_kill |-> last.branch = "killed" /\ last.file = filename,
                    expect |-> IF last.branch = "killed" /\ last.file = filename
                               THEN last.expect
                               ELSE Some([master  |-> run.states[Len(run.states)].master,
                                          history |-> run.states[Len(run.states)].history]),
                    steps |-> IF saved THEN run.steps ELSE <<>>]
        /\ first_seen' = IF end.master = master THEN first_seen
                         ELSE Seen(first_seen, DirectoryOf(end.master))
        /\ UNCHANGED <<csv, mi>>

Next == \E f \in Files : Main(f)

Spec == Init /\ [][Next]_vars

NextCrash ==
    \/ \E f \in Files : Main(f)
    \/ \E f \in Files : MainKilled(f)

\* the input directory of the runs that may be killed: two approved rows of one
\* address in the Wine Yard export, one in the Yacht Social export
InitCrash ==
    /\ Init
    /\ csv[FileWine] = Some(<<RowCy, RowAl>>)
    /\ csv[FileYacht] = Some(<<RowCy>>)
    /\ csv[FileWine2] = Some(<<RowBo>>)

SpecCrash == InitCrash /\ [][NextCrash]_vars

\* runs on a disk where the master file may refuse to be written
NextLocked ==
    \/ \E f \in Files : Main(f)
    \/ \E f \in Files : MainLocked(f)

SpecLocked == InitCrash /\ [][NextLocked]_vars

-----------------------------------------------------------------------------
(* Direct calls of _merge_contact_data *)

\* the event id _update_master_from_snapshots passes for the snapshot of a file
EventIdOf(f) == SnapshotEventId(SnapshotName(EventOfFile[f][1]))[1]

\* the event codes of the calls
MergeEvents == {EventIdOf(FileWine), EventIdOf(FileYacht)}

\* the records of the calls: the contacts _load_contacts_from_vcf reads from the
\* snapshots the exports of the input directory give
SnapshotRecords(f) ==
    UNION {Range(DictValues(LoadContactsFromVcf(
                SaveContactsToVcf(ProcessCsv(f, EventOfFile[f], c).contacts[1],
                                  EventOfFile[f][1])))) : c \in Contents(f)}

MergeRecords == SnapshotRecords(FileWine) \cup SnapshotRecords(FileYacht)

InitMerge ==
    /\ csv = [f \in Files |-> CHOOSE x \in Contents(f) : TRUE]
    /\ master = None
    /\ snaps = <<>>
    /\ history = None
    /\ archive = <<>>
    /\ merged = {}
    /\ last = NoRun
    /\ first_seen = <<>>
    /\ mi \in [stage : {1}, old : {None} \cup {Some(c) : c \in MergeRecords},
                new : MergeRecords, event_code : MergeEvents]

\* merged = self._merge_contact_data(old, new, event_code)
MergeCall ==
    /\ mi.stage = 1
    /\ mi' = [stage |-> 2, old |-> mi.old, new |-> mi.new, event_code |-> mi.event_code,
              once |-> MergeContactData(mi.old, mi.new, mi.event_code)]
    /\ UNCHANGED <<csv, master, snaps, history, archive, merged, last, first_seen>>

NextMerge == MergeCall

SpecMerge == InitMerge /\ [][NextMerge]_vars

-----------------------------------------------------------------------------
(* Vocabulary of the properties *)

\* the ledger's processed_files, [] when there is no ledger
ProcessedFiles == IF history = None THEN <<>> ELSE history[1].processed_files

\* the records of the snapshots merged into the master so far
MergedRecords == UNION {Range(DictValues(LoadContactsFromVcf(s[2]))) : s \in merged}

\* the event blocks of a note text: the pieces between the "-----" separators of
\* line 474 that start with "EVENT: "
EventBlocks(notes) ==
    SelectSeq(Split(notes, <<"-","-","-","-","-">>), LAMBDA b : StartsWith(b, <<"E","V","E","N","T",":"," ">>))

\* the event code of an event block: the word after "EVENT: "
BlockCode(block) == Split(SubSeq(block, 8, Len(block)), <<" ">>)[1]

\* the EMAIL lines of the cards of master_contacts.vcf
MasterEmails ==
    IF master = None THEN <<>>
    ELSE LET lines == SelectSeq(Split(master[1], <<"\n">>),
                                LAMBDA l : StartsWith(l, <<"E","M","A","I","L",":">>))
         IN  [i \in 1..Len(lines) |-> SubSeq(lines[i], 7, Len(lines[i]))]

\* two names that share no letter: their similarity is 0 under every measure
NoCommonChar(a, b) == (Range(Lower(a)) \ WS) \cap (Range(Lower(b)) \ WS) = {}

\* file f before file g by event date
DateLess(f, g) ==
    LET a == EventOfFile[f][1].date
        b == EventOfFile[g][1].date
    IN  \/ a.y < b.y
        \/ a.y = b.y /\ a.m < b.m
        \/ a.y = b.y /\ a.m = b.m /\ a.d < b.d

\* the files of a sequence in ascending order of event date
RECURSIVE InsertByDate(_, _)
InsertByDate(f, files) ==
    IF files = <<>> THEN <<f>>
    ELSE IF DateLess(f, files[1]) THEN <<f>> \o files
    ELSE <<files[1]>> \o InsertByDate(f, Tail(files))

RECURSIVE ByDate(_)
ByDate(files) ==
    IF files = <<>> THEN <<>>
    ELSE InsertByDate(files[Len(files)], ByDate(SubSeq(files, 1, Len(files) - 1)))

\* the files after main() has run on each file of a sequence in turn
RECURSIVE RunAll(_, _)
RunAll(files, fs) ==
    IF files = <<>> THEN fs
    ELSE LET run == ProcessNewCsvRun(files[1], EventOfFile[files[1]], csv[files[1]], fs)
         IN  RunAll(Tail(files), IF run.states = <<>> THEN fs ELSE run.states[Len(run.states)])

-----------------------------------------------------------------------------
(* Properties *)

\* C1: merging is idempotent: for every call of _merge_contact_data a run makes
\* (line 685: an Identity of the master, a record of a snapshot and the event id
\* of that snapshot), the function applied to its own result with the same
\* record and event id returns that result, in every field.
MergeIdempotent ==
    \A i \in 1..Len(last.steps) :
        last.steps[i].old # None =>
            LET once == MergeContactData(last.steps[i].old, last.steps[i].new,
                                         last.steps[i].event_code)
            IN  MergeContactData(Some(once), last.steps[i].new,
                                 last.steps[i].event_code) = once

\* C1 witness: the last run has called _merge_contact_data with an Identity of
\* another name, and the call has appended an event block to its notes
MergeAppendedBlock ==
    \E i \in 1..Len(last.steps) :
        /\ last.steps[i].old # None
        /\ last.steps[i].old[1].name # last.steps[i].new.name
        /\ MergeContactData(last.steps[i].old, last.steps[i].new,
                            last.steps[i].event_code).notes # last.steps[i].old[1].notes

\* C2: in every reachable state, re-runs and re-merges of merged snapshots
\* included, the notes of each Identity of the master hold at most one event
\* block per event code.
NoDuplicateEventBlocks ==
    LET directory == Directory
    IN  \A i \in 1..Len(directory) :
            LET blocks == EventBlocks(directory[i][2].notes)
                codes  == [j \in 1..Len(blocks) |-> BlockCode(blocks[j])]
            IN  \A j, k \in 1..Len(codes) : j # k => codes[j] # codes[k]

\* C2 witness: a run has merged again a snapshot that was merged before, into an
\* Identity whose notes hold the blocks of two events
RemergedTwoEvents ==
    /\ last.remerged
    /\ \E i \in 1..Len(Directory) : Len(EventBlocks(Directory[i][2].notes)) >= 2

\* C3: approved records with the same non-empty email resolve to one Identity,
\* whatever their names and phones: the master never holds two cards with one
\* email, and every merged record with an email is the Identity of that email.
OneIdentityPerEmail ==
    LET directory == Directory
        emails == MasterEmails
    IN  /\ \A i, j \in 1..Len(emails) : i # j => emails[i] # emails[j]
        /\ \A r \in MergedRecords :
              r.email # <<>> => /\ DictHas(directory, r.email)
                                /\ DictGet(directory, r.email, r).email = r.email

\* C3 witness: two merged records with the same email and different names and
\* phones, and the Identity of that email in the master
SameEmailTwoNames ==
    \E r, q \in MergedRecords :
        /\ r.email # <<>> /\ r.email = q.email
        /\ r.name # q.name /\ r.phone # q.phone
        /\ DictHas(Directory, r.email)

\* C4: the phone is first-non-empty-wins: merging into an Identity without a
\* phone takes the phone of the record, merging into an Identity with a phone
\* keeps it.
PhoneFirstNonEmptyWins ==
    (mi.stage >= 2 /\ mi.old # None) =>
        mi.once.phone = (IF mi.old[1].phone # <<>> THEN mi.old[1].phone ELSE mi.new.phone)

\* C5: once an Identity is in the master, no run changes its name or its email:
\* every Identity has the name and the email it had when it was first added,
\* and every Identity that was added is still there.
NameAndEmailImmutable ==
    LET directory == Directory
    IN  /\ \A i \in 1..Len(directory) :
              /\ DictHas(first_seen, directory[i][1])
              /\ DictGet(first_seen, directory[i][1], <<>>).name = directory[i][2].name
              /\ DictGet(first_seen, directory[i][1], <<>>).email = directory[i][2].email
        /\ \A k \in DictKeys(first_seen) : DictHas(directory, k)

\* C5 witness: a record of another name was merged into an Identity, which has
\* the blocks of two events
MergedOtherName ==
    /\ last.branch = "ok"
    /\ \E i \in 1..Len(Directory) : \E r \in MergedRecords :
          /\ r.email = Directory[i][2].email
          /\ r.name # Directory[i][2].name
          /\ Len(EventBlocks(Directory[i][2].notes)) >= 2

\* C6: a merged record without email, whose phone no other merged record has
\* and whose name shares no letter with the name of any other merged record, is
\* an Identity of its own in the master, with its name and phone.
EmailLessRecordIsNewIdentity ==
    \A r \in MergedRecords :
        (/\ r.email = <<>>
         /\ \A q \in MergedRecords \ {r} : q.phone # r.phone /\ NoCommonChar(q.name, r.name))
        => \E i \in 1..Len(Directory) :
              Directory[i][2].name = r.name /\ Directory[i][2].phone = r.phone

\* C7: whatever the order of the runs, the master is the one that running the
\* processed files in ascending order of event date gives (stated for files of
\* pairwise different dates, where that order is unique).
MergedInDateOrder ==
    (/\ Len(ProcessedFiles) >= 2
     /\ \A i, j \in 1..Len(ProcessedFiles) :
           i # j => EventOfFile[ProcessedFiles[i]][1].date # EventOfFile[ProcessedFiles[j]][1].date)
    => LET fs == RunAll(ByDate(ProcessedFiles), FsOf(None, <<>>, None, <<>>))
       IN  Directory = LoadContactsFromVcf(fs.master[1])

\* C8: a run on a file name that is in the ledger's processed_files is a no-op:
\* master, snapshots, ledger and declined lists stay as they are and nothing is
\* merged.
ReprocessIsNoOp ==
    [][last'.file \in Range(ProcessedFiles)
       => /\ UNCHANGED <<master, snaps, history, archive, merged>>
          /\ last'.branch = "already"]_vars

\* C8 witness: a run found its file in the ledger, with a master in place
RanAlreadyProcessed == last.branch = "already" /\ master # None

\* C9: a run whose file cannot be identified or read ends with a non-zero exit
\* code, and the file is not recorded as processed.
FailureExitsNonZero ==
    last.branch \in {"unidentified", "unreadable"}
    => last.exit # 0 /\ last.file \notin Range(ProcessedFiles)

\* C10: every row whose approval_status is not 'approved' is in the declined
\* list of its event, and is not an Identity of the master.
NonApprovedRowsArchived ==
    last.branch \in {"ok", "no_contacts"}
    => LET rows == csv[last.file][1]
       IN  \A i \in 1..Len(rows) :
             LET contact == ProcessRow(rows[i], IgnoreFields)
             IN  contact.approval_status # APPROVED
                 => /\ Contains(DictGet(archive, DeclinedName(EventOfFile[last.file][1]), <<>>),
                                DeclinedLine(contact))
                    /\ ~DictHas(Directory, contact.email)

\* the fields of an Identity that master_contacts.vcf stores
StoredFields(c) == <<c.email, c.name, c.phone, c.linkedin, c.notes>>

\* C11: the master_contacts a run hands to _save_master_vcf, written and read
\* back with _load_contacts_from_vcf, has the same keys, and every Identity has
\* the same email, name, phone, URL and notes as before.
MasterRoundTrip ==
    last.saved # None =>
        LET d    == last.saved[1]
            back == LoadContactsFromVcf(SaveMasterVcf(d))
        IN  /\ DictKeys(back) = DictKeys(d)
            /\ \A i \in 1..Len(d) :
                  StoredFields(DictGet(back, d[i][1], d[i][2])) = StoredFields(d[i][2])

\* C11 witness: a run has saved a Directory of several Identities, one of them
\* from the row with ';', ':' and a line break in its values, with ':' in its
\* phone and in its URL
SavedOddValues ==
    /\ last.saved # None
    /\ csv[FileWine2] # None /\ RowOdd \in Range(csv[FileWine2][1])
    /\ Len(last.saved[1]) >= 2
    /\ \E i \in 1..Len(last.saved[1]) :
          /\ Contains(last.saved[1][i][2].phone, <<":">>)
          /\ Contains(last.saved[1][i][2].linkedin, <<":">>)

\* C12: a run that follows a run on the same file that was killed between two
\* writes ends with the master Directory and the ledger that the killed run
\* would have left, and no Identity has two blocks of one event.
CrashRecovery ==
    (last.after_kill /\ last.branch # "killed") =>
        /\ Directory = DirectoryOf(last.expect[1].master)
        /\ history = last.expect[1].history
        /\ \A i \in 1..Len(Directory) :
              LET blocks == EventBlocks(Directory[i][2].notes)
              IN  \A j, k \in 1..Len(blocks) :
                     j # k => BlockCode(blocks[j]) # BlockCode(blocks[k])

\* C12 witness: a run that followed a killed run on its file has merged again
\* the snapshot the killed run had merged (killed between the master write and
\* the ledger write), into a master that holds the blocks of two events
RecoveredAfterMasterWrite ==
    /\ last.after_kill /\ last.branch = "ok" /\ last.remerged
    /\ \E i \in 1..Len(Directory) : Len(EventBlocks(Directory[i][2].notes)) >= 2

\* C13: every Identity of the master has a URL that is empty or valid (it starts
\* with http and holds a LinkedIn domain).
MasterUrlsValid ==
    \A i \in 1..Len(Directory) :
        Directory[i][2].linkedin = <<>> \/ IsValidLinkedinUrl(Directory[i][2].linkedin)

\* C14: a run whose _save_master_vcf could not write the master file ends with a
\* non-zero exit code, and neither its input file nor its snapshot is recorded in
\* the ledger as processed.
MasterWriteFailureFatal ==
    last.branch = "locked" =>
        /\ last.exit # 0
        /\ last.file \notin Range(LoadHistory(history).processed_files)
        /\ SnapshotName(EventOfFile[last.file][1])
              \notin LoadHistory(history).processed_snapshots

\* the approved contacts process_csv reads from file f
ApprovedRows(f) ==
    Let([pc \in {ProcessCsv(f, EventOfFile[f], csv[f])} |->
        IF pc.contacts = None THEN <<>> ELSE pc.contacts[1]])

\* the Directory holds an Identity under the key of contact c (its email, line
\* 513) whose notes have a block of the event of file f
HasEventBlock(directory, c, f) ==
    /\ DictHas(directory, c.email)
    /\ \E b \in Range(EventBlocks(DictGet(directory, c.email, c).notes)) :
          BlockCode(b) = EventIdOf(f)

\* C15: for every file recorded in the ledger's processed_files, every approved
\* row of the file has an Identity in the master file whose notes hold the block
\* of the file's event, also when another file of the same event code and date
\* was processed before.
CompletedEventDurable ==
    \A f \in Range(ProcessedFiles) :
        \A c \in Range(ApprovedRows(f)) : HasEventBlock(Directory, c, f)

\* C16: no run deletes an Identity: every key the master Directory held after
\* some earlier run (the keys of first_seen) is a key of the master Directory now.
IdentitiesNeverDeleted ==
    LET keys == DictKeys(Directory)
    IN  \A k \in DictKeys(first_seen) : k \in keys

\* C16 witness: a run has written the master, which holds an Identity that is
\* not among the rows of the file of that run
KeptOtherIdentity ==
    /\ last.branch = "ok" /\ last.saved # None
    /\ \E k \in DictKeys(Directory) :
          \A c \in Range(ApprovedRows(last.file)) : c.email # k

\* C17: emails are trimmed and lower-cased before identity resolution: every
\* Identity of the master is stored under a trimmed lower-case email, and merged
\* records whose emails differ only in case or surrounding blanks share one
\* Identity.
EmailsNormalized ==
    LET directory == Directory
    IN  /\ \A i \in 1..Len(directory) :
              /\ directory[i][1] = Lower(Strip(directory[i][1]))
              /\ directory[i][2].email = directory[i][1]
        /\ \A i, j \in 1..Len(directory) :
              Lower(Strip(directory[i][1])) = Lower(Strip(directory[j][1])) => i = j

\* the record of a _merge_contact_data call is a record of the event of the
\* call: its notes start with the block of that event code
RecordOfEvent(new, event_code) ==
    /\ EventBlocks(new.notes) # <<>>
    /\ BlockCode(EventBlocks(new.notes)[1]) = event_code

\* C18: merging a record of event E into an Identity whose notes have no block
\* of E gives the old notes, the separator and exactly one new block of E, also
\* when the code of E occurs in free text of the old notes.
AppendsNewBlock ==
    (/\ mi.stage >= 2 /\ mi.old # None
     /\ RecordOfEvent(mi.new, mi.event_code)
     /\ \A b \in Range(EventBlocks(mi.old[1].notes)) : BlockCode(b) # mi.event_code) =>
        LET blocks == EventBlocks(mi.once.notes)
        IN  /\ Len(blocks) = Len(EventBlocks(mi.old[1].notes)) + 1
            /\ BlockCode(blocks[Len(blocks)]) = mi.event_code
            /\ mi.once.notes = mi.old[1].notes \o <<"-","-","-","-","-">> \o blocks[Len(blocks)]

\* C19: after a run that wrote a snapshot, the note of every approved row in the
\* snapshot is the event line followed by every line _get_section_values
\* classified for the row, each once: ROLE lines first, then the other
\* PROFESSIONAL lines, then the other categories by priority, sorted inside each.
ClassifiedLinesRendered ==
    last.branch = "ok" =>
        LET event    == EventOfFile[last.file]
            snapshot == DictGet(snaps, SnapshotName(event[1]), <<>>)
            ordered  == SortBy("priority", Sections)
            Lines(sections) ==
                Join([i \in 1..Len(ordered) |->
                         LET lines == DictGet(sections, ordered[i].name, {})
                             roles == {n \in lines : StartsWith(n, <<"R","O","L","E",":">>)}
                         IN  IF ordered[i].name = <<"P","R","O","F","E","S","S","I","O","N","A","L">>
                             THEN SortedStrs(roles) \o SortedStrs(lines \ roles)
                             ELSE SortedStrs(lines)],
                     <<>>)
            Block(c) ==
                Join(<< <<"E","V","E","N","T",":"," ">> \o EventFormat(event[1].code, StrfYmd(event[1].date),
                                                   event[1].name) >>
                     \o Lines(GetSectionValues(c, event)),
                     <<" "," ">>)
        IN  \A c \in Range(ApprovedRows(last.file)) :
                Contains(snapshot, <<"N","O","T","E",":">> \o Block(c) \o <<"\n","E","N","D",":","V","C","A","R","D","\n">>)

\* C20: the ledger's processed_files never holds a file name twice, and a step
\* changes it only by appending the file of a run that returned True, after that
\* run wrote its snapshot and the master update recorded the snapshot; a run
\* that failed or was skipped leaves processed_files as it was.
LedgerInvariant ==
    /\ [](\A i, j \in 1..Len(ProcessedFiles) : i # j => ProcessedFiles[i] # ProcessedFiles[j])
    /\ [][ProcessedFiles' # ProcessedFiles =>
              /\ last'.ret
              /\ ProcessedFiles' = Append(ProcessedFiles, last'.file)
              /\ SnapshotName(EventOfFile[last'.file][1]) \in DictKeys(snaps')
              /\ SnapshotName(EventOfFile[last'.file][1]) \in history'[1].processed_snapshots]_vars

\* C20 witness: runs that failed or were skipped have left a ledger with two
\* processed files as it was
SkippedRunLeftLedger ==
    /\ ~last.ret /\ last.branch \in {"already", "unreadable", "no_contacts", "unidentified"}
    /\ Len(ProcessedFiles) >= 2

\* the number of cards of a VCF text
CardCount(text) == Len(Split(text, <<"B","E","G","I","N",":","V","C","A","R","D">>)) - 1

\* the test of line 684 failed for the card of this email in the snapshot of
\* the last run's file: the email was not a key of master_contacts, as the loop
\* had extended it, and line 689 stored the card
NotSeenBefore(email) ==
    \E i \in 1..Len(last.steps) :
        /\ last.steps[i].snapshot = SnapshotName(EventOfFile[last.file][1])
        /\ last.steps[i].email = email
        /\ last.steps[i].old = None

\* row j is the last of several approved rows with its email
LastOfSeveral(rows, j) ==
    /\ \E i \in 1..(j - 1) : rows[i].email = rows[j].email
    /\ \A k \in (j + 1)..Len(rows) : rows[k].email # rows[j].email

\* the Identity has the name, phone, URL and notes of the row in the snapshot
IdentityFromRow(identity, row, event) ==
    /\ identity.name = row.name
    /\ identity.phone = row.phone
    /\ identity.linkedin = row.linkedin
    /\ identity.notes = FormatNotes(row, event)

\* C21: after a run that returned True, the snapshot of its file holds one card
\* per approved row, and for several approved rows with one email the master
\* holds exactly one Identity of that email; if the email was not in the
\* Directory before, the Identity has the name, phone, URL and notes of the last
\* of these rows.
LastRowWins ==
    last.branch = "ok" =>
        LET rows     == ApprovedRows(last.file)
            event    == EventOfFile[last.file]
            snapshot == DictGet(snaps, SnapshotName(event[1]), <<>>)
            emails   == MasterEmails
        IN  /\ CardCount(snapshot) = Len(rows)
            /\ \A j \in 1..Len(rows) :
                  LastOfSeveral(rows, j) =>
                      /\ Cardinality({m \in 1..Len(emails) : emails[m] = rows[j].email}) = 1
                      /\ NotSeenBefore(rows[j].email) =>
                             IdentityFromRow(DictGet(Directory, rows[j].email, rows[1]),
                                             rows[j], event)
====
